---- MODULE Spec2Model ----
(***************************************************************************)
(* Model of the markdown viewer server (server.js: express handlers, the   *)
(* SSE subscriber registry, the chokidar watcher callbacks and the         *)
(* Puppeteer PDF export) on Node's single-threaded event loop.  Every      *)
(* action is one task of the loop: a synchronous handler, or the part of   *)
(* an async handler between two await points.                              *)
(***************************************************************************)
EXTENDS Integers, Sequences, FiniteSets, TLC

(* ---------------------------- bounds ---------------------------------- *)
MaxConns == 3       \* event-stream connections ever accepted
MaxEdits == 2       \* saves of the Document by the external editor
MaxExports == 2     \* ExportPdf requests ever accepted
MaxRenders == 2     \* GetRendering requests ever accepted
MaxWatchErrors == 1 \* 'error' events the watcher ever emits
MaxLoads == 3       \* calls of loadMarkdown in the page

Conns == 1..MaxConns
Reqs == 1..MaxExports
Loads == 1..MaxLoads
Browsers == 1..MaxExports

(* ------------------------ program constants --------------------------- *)
\* A viewport as wide as the whole Letter sheet: 8.5" at 96 DPI.
ViewportWidthFullPage == (17 * 96) \div 2
ViewportWidth == 720
ViewportHeight == 960

RESUME_PATH == "resume.md"
GithubCssPath == "github-markdown.css"
CustomCssPath == "style.css"
Files == {RESUME_PATH, GithubCssPath, CustomCssPath}

ConnectedMsg == "data: {\"type\":\"connected\"}\n\n"
UpdateMsg == "data: {\"type\":\"update\"}\n\n"

VARIABLES
  alive,        \* the node process is running
  exitCode,     \* the exit code of the process (-1 while it runs)
  watcher,      \* chokidar: "starting" (initial scan) | "ready" | "closed"
  watchErrors,  \* 'error' events of the watcher logged by its handler
  clients,      \* the module-level list of SSE response handles
  conn,         \* per connection: "none" | "open" | "closed" | "failed"
  sent,         \* per connection: the chunks written to its response so far
  failing,      \* the open channels on which res.write now throws
  doc,          \* version of the Document on disk (edited externally)
  readable,     \* the files that fs.readFileSync can currently read
  pending,      \* change events chokidar has detected and not yet delivered
  mdReqs,       \* GetRendering requests handled so far
  mdResp,       \* the responses sent by the GetRendering requests, in order
  pc,           \* per export request: the await point it is suspended at
  fullHtml,     \* per export request: local const fullHtml
  browser,      \* per export request: local const browser (0 = not assigned)
  pdf,          \* per export request: local const pdf
  resp,         \* per export request: the responses sent on its res
  launched,     \* per export request: the browser instances it launched
  browsers,     \* per browser instance: "none" | "open" | "closed"
  page,         \* per browser instance: its page (viewport, content)
  loadPc,       \* per call of loadMarkdown in the page: where it stands
  response,     \* per call of loadMarkdown: what its fetch settled with
  content,      \* innerHTML of the page's #markdown-content element
  opacity,      \* style.opacity of the same element
  timers,       \* the loads whose 100 ms timer is set, in the order set
  loaded,       \* the page's DOMContentLoaded listener has run
  received,     \* per connection: the messages onmessage has handled
  exportPc,     \* per call of exportToPDF: "idle" | "fetch" | "blob" | "done"
  disabled,     \* exportBtn.disabled
  label,        \* exportBtn.textContent
  originalText, \* per call of exportToPDF: the label it found
  clicks,       \* clicks the export button has dispatched
  issued,       \* fetch('/api/generate-pdf') calls the page has made
  alerts,       \* alert() dialogs the page has shown
  opened        \* window.open calls the page has made

watchVars == <<watcher, watchErrors>>
hubVars == <<clients, conn, sent, failing, pending>>
fileVars == <<doc, readable>>
mdVars == <<mdReqs, mdResp>>
pdfVars == <<pc, fullHtml, browser, pdf, resp, launched, browsers, page>>
reloadVars == <<loaded, received>>
buttonVars == <<exportPc, disabled, label, originalText, clicks, issued, alerts, opened>>
clientVars == <<loadPc, response, content, opacity, timers, reloadVars, buttonVars>>
vars == <<alive, exitCode, watcher, watchErrors, clients, conn, sent, failing, doc, readable, pending, mdReqs, mdResp,
          pc, fullHtml, browser, pdf, resp, launched, browsers, page,
          loadPc, response, content, opacity, timers,
          loaded, received, exportPc, disabled, label, originalText, clicks, issued, alerts, opened>>

NoHtml == [none |-> TRUE]
NoPage == [exists |-> FALSE, viewport |-> <<0, 0>>, url |-> "about:blank",
           content |-> NoHtml]
NoPdf == [none |-> TRUE]
NoResponse == [none |-> TRUE]
\* What the content element holds before a load has displayed anything.
Placeholder == [placeholder |-> TRUE]
\* The text of the export button in the served page, and the text
\* exportToPDF shows while it waits.
ExportLabel == "Export as PDF"
GeneratingLabel == "Generating PDF..."

Init ==
  /\ alive = TRUE
  /\ exitCode = -1
  /\ watcher = "starting"
  /\ watchErrors = 0
  /\ clients = <<>>
  /\ conn = [c \in Conns |-> "none"]
  /\ sent = [c \in Conns |-> <<>>]
  /\ failing = {}
  /\ doc = 0
  /\ readable = Files
  /\ pending = 0
  /\ mdReqs = 0
  /\ mdResp = <<>>
  /\ pc = [r \in Reqs |-> "idle"]
  /\ fullHtml = [r \in Reqs |-> NoHtml]
  /\ browser = [r \in Reqs |-> 0]
  /\ pdf = [r \in Reqs |-> NoPdf]
  /\ resp = [r \in Reqs |-> <<>>]
  /\ launched = [r \in Reqs |-> {}]
  /\ browsers = [b \in Browsers |-> "none"]
  /\ page = [b \in Browsers |-> NoPage]
  /\ loadPc = [l \in Loads |-> "idle"]
  /\ response = [l \in Loads |-> NoResponse]
  /\ content = Placeholder
  /\ opacity = "1"
  /\ timers = <<>>
  /\ loaded = FALSE
  /\ received = [c \in Conns |-> 0]
  /\ exportPc = [r \in Reqs |-> "idle"]
  /\ disabled = FALSE
  /\ label = ExportLabel
  /\ originalText = [r \in Reqs |-> ""]
  /\ clicks = 0
  /\ issued = 0
  /\ alerts = 0
  /\ opened = 0

(* ------------------------- sequence helpers --------------------------- *)
Range(s) == {s[i] : i \in 1..Len(s)}

(* ------------------- the Document and its watcher --------------------- *)
\* A watcher without ignoreInitial whose scan reports the existing file to
\* the 'change' listener.
InitialEventsReported == IF TRUE THEN 1 ELSE 0

\* The 'change' events the initial scan of an existing file queues.
\* ignoreInitial: true suppresses the events of the scan, and the scan
\* reports an existing file as 'add', for which no listener is registered.
InitialEvents == IF TRUE THEN 0 ELSE 1

\* chokidar.watch(RESUME_PATH, {persistent: true, ignoreInitial: true}):
\* the initial scan observes the existing file and the watcher is ready.
WatcherReady ==
  /\ alive
  /\ watcher = "starting"
  /\ watcher' = "ready"
  /\ pending' = pending + InitialEvents
  /\ UNCHANGED <<clientVars, alive, exitCode, watchErrors, clients, conn, sent, failing,
                 fileVars, mdVars, pdfVars>>

\* The external editor saves the Document; chokidar (once it watches the
\* file, while the process runs) detects the modification and queues one
\* 'change' event.
Edit ==
  /\ doc < MaxEdits
  /\ doc' = doc + 1
  /\ pending' = IF alive /\ watcher = "ready" THEN pending + 1 ELSE pending
  /\ UNCHANGED <<clientVars, alive, exitCode, watchVars, clients, conn, sent, failing, readable, mdVars, pdfVars>>

\* A file is deleted (or made unreadable) or restored outside the program.
Remove(f) ==
  /\ f \in readable
  /\ readable' = readable \ {f}
  /\ UNCHANGED <<clientVars, alive, exitCode, watchVars, hubVars, doc, mdVars, pdfVars>>

Restore(f) ==
  /\ f \notin readable
  /\ readable' = readable \cup {f}
  /\ UNCHANGED <<clientVars, alive, exitCode, watchVars, hubVars, doc, mdVars, pdfVars>>

(* ------------------------- /events (Subscribe) ------------------------ *)
\* A handler that registers the response without greeting it.
SubscribeNoGreeting(c) ==
  /\ alive
  /\ conn[c] = "none"
  /\ \A d \in Conns : d < c => conn[d] # "none"
  /\ clients' = Append(clients, c)
  /\ conn' = [conn EXCEPT ![c] = "open"]
  /\ UNCHANGED <<clientVars, alive, exitCode, watchVars, sent, failing, fileVars, pending, mdVars, pdfVars>>

\* app.get('/events'): write "connected", push res, register the close handler.
Subscribe(c) ==
  /\ alive
  /\ conn[c] = "none"
  /\ \A d \in Conns : d < c => conn[d] # "none"
  /\ sent' = [sent EXCEPT ![c] = Append(@, ConnectedMsg)]
  /\ clients' = Append(clients, c)
  /\ conn' = [conn EXCEPT ![c] = "open"]
  /\ UNCHANGED <<clientVars, alive, exitCode, watchVars, failing, fileVars, pending, mdVars, pdfVars>>

\* res.write of the "connected" message throws: the handler is left before
\* clients.push and before req.on('close'); express answers the request with
\* its default error response, so the connection never becomes a subscriber.
SubscribeWriteFails(c) ==
  /\ alive
  /\ conn[c] = "none"
  /\ \A d \in Conns : d < c => conn[d] # "none"
  /\ conn' = [conn EXCEPT ![c] = "failed"]
  /\ UNCHANGED <<clientVars, alive, exitCode, watchVars, clients, sent, failing, fileVars, pending, mdVars, pdfVars>>

\* A plausible slip in the close handler: the predicate of filter inverted.
KeepOnly(s, x) == IF x \in Range(s) THEN <<x>> ELSE <<>>

\* Array.prototype.filter(client => client !== res)
RECURSIVE Without(_, _)
Without(s, x) ==
  IF s = <<>> THEN <<>>
  ELSE IF Head(s) = x THEN Without(Tail(s), x)
       ELSE <<Head(s)>> \o Without(Tail(s), x)

\* req.on('close'): the connection closed; the handler filters res out.
Close(c) ==
  /\ alive
  /\ conn[c] = "open"
  /\ clients' = Without(clients, c)
  /\ conn' = [conn EXCEPT ![c] = "closed"]
  /\ failing' = failing \ {c}
  /\ UNCHANGED <<clientVars, alive, exitCode, watchVars, sent, fileVars, pending, mdVars, pdfVars>>

\* The stream of an open channel gets into a state in which res.write throws.
Break(c) ==
  /\ alive
  /\ conn[c] = "open"
  /\ c \notin failing
  /\ failing' = failing \cup {c}
  /\ UNCHANGED <<clientVars, alive, exitCode, watchVars, clients, conn, sent, fileVars, pending, mdVars, pdfVars>>

(* --------------------------- notifyClients ---------------------------- *)
\* The number of writes forEach completes: it stops at the first client whose
\* write throws, because the callback has no try/catch.
Written ==
  IF \E i \in 1..Len(clients) : clients[i] \in failing
  THEN (CHOOSE i \in 1..Len(clients) :
          /\ clients[i] \in failing
          /\ \A j \in 1..(i - 1) : clients[j] \notin failing) - 1
  ELSE Len(clients)

\* clients.forEach(client => client.write('data: {"type":"update"}\n\n'))
notifyClients ==
  [c \in Conns |->
     IF \E i \in 1..Written : clients[i] = c THEN Append(sent[c], UpdateMsg)
     ELSE sent[c]]

\* A broadcast that empties the registry once it has written to everyone.
WatcherChangeForgets ==
  /\ alive
  /\ pending > 0
  /\ pending' = pending - 1
  /\ sent' = notifyClients
  /\ clients' = <<>>
  /\ UNCHANGED <<clientVars, alive, exitCode, watchVars, conn, failing, fileVars, mdVars, pdfVars>>

\* watcher.on('change'): log and notifyClients().  An exception thrown by a
\* write leaves the listener uncaught; depending on the runtime that ends the
\* process (uncaught exception) or is only reported and the process goes on.
WatcherChange ==
  /\ alive
  /\ pending > 0
  /\ pending' = pending - 1
  /\ sent' = notifyClients
  /\ IF Written < Len(clients)
     THEN /\ alive' \in BOOLEAN
          /\ exitCode' = IF alive' THEN exitCode ELSE 1
     ELSE /\ alive' = alive
          /\ exitCode' = exitCode
  /\ UNCHANGED <<clientVars, watchVars, clients, conn, failing, fileVars, mdVars, pdfVars>>

\* A watcher whose error is not listened to: the EventEmitter throws the
\* unhandled 'error' event and the process ends.
WatcherErrorFatal ==
  /\ alive
  /\ watcher # "closed"
  /\ watchErrors < MaxWatchErrors
  /\ watchErrors' = watchErrors + 1
  /\ alive' = FALSE
  /\ exitCode' = 1
  /\ UNCHANGED <<clientVars, watcher, hubVars, fileVars, mdVars, pdfVars>>

\* watcher.on('error'): the error is logged with console.error.
WatcherError ==
  /\ alive
  /\ watcher # "closed"
  /\ watchErrors < MaxWatchErrors
  /\ watchErrors' = watchErrors + 1
  /\ UNCHANGED <<clientVars, alive, exitCode, watcher, hubVars, fileVars, mdVars, pdfVars>>

(* ------------------------------- SIGINT ------------------------------- *)
\* A handler that closes the watcher and leaves the process running.
SigintNoExit ==
  /\ alive
  /\ watcher # "closed"
  /\ watcher' = "closed"
  /\ UNCHANGED <<clientVars, alive, exitCode, watchErrors, hubVars, fileVars, mdVars, pdfVars>>

\* process.on('SIGINT'): watcher.close(), then process.exit(0).
Sigint ==
  /\ alive
  /\ watcher' = "closed"
  /\ alive' = FALSE
  /\ exitCode' = 0
  /\ UNCHANGED <<clientVars, watchErrors, hubVars, fileVars, mdVars, pdfVars>>

(* ---------------------- /api/markdown (GetRendering) ------------------ *)
\* A renderer that keeps the rendering of the text it was first given (the
\* Document as it was when the server started) and returns it ever after.
markedCached(markdown) == [html |-> "rendered", md |-> 0]

\* marked(markdown): the HTML fragment rendered from one version of the text.
marked(markdown) == [html |-> "rendered", md |-> markdown]

ReadError == [status |-> 500, type |-> "application/json", disposition |-> "",
              body |-> [error |-> "Failed to read markdown file"]]
PdfError == [status |-> 500, type |-> "application/json", disposition |-> "",
             body |-> [error |-> "Failed to generate PDF"]]

\* A handler whose read is outside the try block: nothing is sent by it.
MarkdownResponsesUncaught ==
  IF RESUME_PATH \in readable
  THEN <<[status |-> 200, type |-> "application/json", disposition |-> "",
          body |-> [html |-> marked(doc)]]>>
  ELSE <<>>

\* The body of app.get('/api/markdown'): what the handler sends on res.
MarkdownResponses ==
  IF RESUME_PATH \in readable
  THEN <<[status |-> 200, type |-> "application/json", disposition |-> "",
          body |-> [html |-> marked(doc)]]>>
  ELSE <<ReadError>>

\* A server on which a pending export keeps the other handlers from running
\* (the browser call made synchronously).
GetRenderingBlocked ==
  /\ alive
  /\ \A r \in Reqs : pc[r] \in {"idle", "done"}
  /\ mdReqs < MaxRenders
  /\ mdReqs' = mdReqs + 1
  /\ mdResp' = mdResp \o MarkdownResponses
  /\ UNCHANGED <<clientVars, alive, exitCode, watchVars, hubVars, fileVars, pdfVars>>

GetRendering ==
  /\ alive
  /\ mdReqs < MaxRenders
  /\ mdReqs' = mdReqs + 1
  /\ mdResp' = mdResp \o MarkdownResponses
  /\ UNCHANGED <<clientVars, alive, exitCode, watchVars, hubVars, fileVars, pdfVars>>

(* -------------------- /api/generate-pdf (ExportPdf) ------------------- *)
\* The origin the server listens on (app.listen(PORT)).
ServerOrigin == "http://localhost:3000"
FontsOrigin == "https://fonts.googleapis.com"
FontFilesOrigin == "https://fonts.gstatic.com"

\* A template that links the two stylesheets on the server, as the page
\* served at / does, instead of inlining them.
FullHtmlLinked(contentHtml) ==
  [links |-> {[rel |-> "preconnect", origin |-> FontsOrigin],
              [rel |-> "preconnect", origin |-> FontFilesOrigin],
              [rel |-> "stylesheet", origin |-> FontsOrigin],
              [rel |-> "stylesheet", origin |-> ServerOrigin]},
   style |-> <<>>,
   content |-> contentHtml]

\* The template literal: the <link> elements of the head, the <style>
\* element with both stylesheets inlined, and the rendered content.
FullHtml(contentHtml) ==
  [links |-> {[rel |-> "preconnect", origin |-> FontsOrigin],
              [rel |-> "preconnect", origin |-> FontFilesOrigin],
              [rel |-> "stylesheet", origin |-> FontsOrigin]},
   style |-> <<GithubCssPath, CustomCssPath>>,
   content |-> contentHtml]

\* Print options with the top margin of the earlier styling notes.
PdfOptionsNarrowTop ==
  [format |-> "Letter", printBackground |-> TRUE, scale |-> 1,
   margin |-> [top |-> "0.25in", right |-> "0.5in",
               bottom |-> "0.5in", left |-> "0.5in"]]

\* The options of the page.pdf call.
PdfOptions ==
  [format |-> "Letter", printBackground |-> TRUE, scale |-> 1,
   margin |-> [top |-> "0.5in", right |-> "0.5in",
               bottom |-> "0.5in", left |-> "0.5in"]]

\* Geometry of the print, in hundredths of an inch: the sheet of a paper
\* format, a margin given as a CSS length in inches, and the CSS pixel
\* (96 to the inch) in which a viewport is measured.
LetterWidth == 850
LetterHeight == 1100
PxPerInch == 96
PaperSize(format) == CASE format = "Letter" -> <<LetterWidth, LetterHeight>>
Inches(length) == CASE length = "0.5in" -> 50
                    [] length = "0.25in" -> 25
                    [] length = "1in" -> 100
                    [] length = "0in" -> 0
Px(hundredths) == (hundredths * PxPerInch) \div 100
PrintableArea(options) ==
  <<Px(PaperSize(options.format)[1] - Inches(options.margin.left) - Inches(options.margin.right)),
    Px(PaperSize(options.format)[2] - Inches(options.margin.top) - Inches(options.margin.bottom))>>

\* page.pdf(options) of a page: the document printed from its content.
PagePdf(p, options) == [of |-> p.content, viewport |-> p.viewport, options |-> options]

PdfResponse(bytes) ==
  [status |-> 200, type |-> "application/pdf",
   disposition |-> "inline; filename=\"John_Karpathy_Resume.pdf\"",
   body |-> bytes]

\* One browser instance kept for all requests instead of one per launch.
SharedBrowser(r) == 1

\* puppeteer.launch() starts a new browser process on every call: the
\* instance launched for request r is named after it.
NewBrowser(r) == r

\* The async handler returns: its locals go out of scope.
Return(r) ==
  /\ pc' = [pc EXCEPT ![r] = "done"]
  /\ fullHtml' = [fullHtml EXCEPT ![r] = NoHtml]
  /\ browser' = [browser EXCEPT ![r] = 0]
  /\ pdf' = [pdf EXCEPT ![r] = NoPdf]

\* A handler that launches the browser before it reads the files: a failed
\* read is answered with the browser already started.
ExportPdfLaunchFirst(r) ==
  /\ alive
  /\ pc[r] = "idle"
  /\ \A q \in Reqs : q < r => pc[q] # "idle"
  /\ IF Files \subseteq readable
     THEN /\ fullHtml' = [fullHtml EXCEPT ![r] = FullHtml(marked(doc))]
          /\ pc' = [pc EXCEPT ![r] = "launch"]
          /\ resp' = resp
          /\ UNCHANGED <<browser, pdf, launched, browsers>>
     ELSE /\ resp' = [resp EXCEPT ![r] = Append(@, PdfError)]
          /\ browsers' = [browsers EXCEPT ![NewBrowser(r)] = "open"]
          /\ launched' = [launched EXCEPT ![r] = @ \cup {NewBrowser(r)}]
          /\ Return(r)
  /\ UNCHANGED <<clientVars, alive, exitCode, watchVars, hubVars, fileVars, mdVars, page>>

\* The handler up to its first await: read the three files, build fullHtml,
\* call puppeteer.launch.  A failed read goes to the catch block.
ExportPdf(r) ==
  /\ alive
  /\ pc[r] = "idle"
  /\ \A q \in Reqs : q < r => pc[q] # "idle"
  /\ IF Files \subseteq readable
     THEN /\ fullHtml' = [fullHtml EXCEPT ![r] = FullHtml(marked(doc))]
          /\ pc' = [pc EXCEPT ![r] = "launch"]
          /\ resp' = resp
          /\ UNCHANGED <<browser, pdf>>
     ELSE /\ resp' = [resp EXCEPT ![r] = Append(@, PdfError)]
          /\ Return(r)
  /\ UNCHANGED <<clientVars, alive, exitCode, watchVars, hubVars, fileVars, mdVars, launched, browsers, page>>

\* await puppeteer.launch(...) resolved; browser.newPage() is called.
LaunchResolved(r) ==
  /\ alive
  /\ pc[r] = "launch"
  /\ browsers' = [browsers EXCEPT ![NewBrowser(r)] = "open"]
  /\ browser' = [browser EXCEPT ![r] = NewBrowser(r)]
  /\ launched' = [launched EXCEPT ![r] = @ \cup {NewBrowser(r)}]
  /\ pc' = [pc EXCEPT ![r] = "newPage"]
  /\ UNCHANGED <<clientVars, alive, exitCode, watchVars, hubVars, fileVars, mdVars, fullHtml, pdf, resp, page>>

\* await browser.newPage() resolved; page.setViewport is called.
NewPageResolved(r) ==
  /\ alive
  /\ pc[r] = "newPage"
  /\ page' = [page EXCEPT ![browser[r]].exists = TRUE]
  /\ pc' = [pc EXCEPT ![r] = "setViewport"]
  /\ UNCHANGED <<clientVars, alive, exitCode, watchVars, hubVars, fileVars, mdVars, fullHtml, browser, pdf, resp, launched, browsers>>

\* await page.setViewport(...) resolved; page.setContent is called.
SetViewportResolved(r) ==
  /\ alive
  /\ pc[r] = "setViewport"
  /\ page' = [page EXCEPT ![browser[r]].viewport = <<ViewportWidth, ViewportHeight>>]
  /\ pc' = [pc EXCEPT ![r] = "setContent"]
  /\ UNCHANGED <<clientVars, alive, exitCode, watchVars, hubVars, fileVars, mdVars, fullHtml, browser, pdf, resp, launched, browsers>>

\* An export that navigates the page to the server's own URL: the page is
\* loaded by a GetRendering request that this server has to answer.
GotoResolved(r) ==
  /\ alive
  /\ pc[r] = "setContent"
  /\ mdReqs < MaxRenders
  /\ mdReqs' = mdReqs + 1
  /\ mdResp' = mdResp \o MarkdownResponses
  /\ page' = [page EXCEPT ![browser[r]].url = ServerOrigin,
                          ![browser[r]].content = fullHtml[r]]
  /\ pc' = [pc EXCEPT ![r] = "pdf"]
  /\ UNCHANGED <<clientVars, alive, exitCode, watchVars, hubVars, fileVars, fullHtml, browser, pdf,
                 resp, launched, browsers>>

\* await page.setContent(fullHtml) resolved; page.pdf is called.
SetContentResolved(r) ==
  /\ alive
  /\ pc[r] = "setContent"
  /\ page' = [page EXCEPT ![browser[r]].content = fullHtml[r]]
  /\ pc' = [pc EXCEPT ![r] = "pdf"]
  /\ UNCHANGED <<clientVars, alive, exitCode, watchVars, hubVars, fileVars, mdVars, fullHtml, browser, pdf, resp, launched, browsers>>

\* await page.pdf(...) resolved; browser.close() is called.
PdfResolved(r) ==
  /\ alive
  /\ pc[r] = "pdf"
  /\ pdf' = [pdf EXCEPT ![r] = PagePdf(page[browser[r]], PdfOptions)]
  /\ pc' = [pc EXCEPT ![r] = "close"]
  /\ UNCHANGED <<clientVars, alive, exitCode, watchVars, hubVars, fileVars, mdVars, fullHtml, browser, resp, launched, browsers, page>>

\* await browser.close() resolved; the PDF is sent.
CloseResolved(r) ==
  /\ alive
  /\ pc[r] = "close"
  /\ browsers' = [browsers EXCEPT ![browser[r]] = "closed"]
  /\ page' = [page EXCEPT ![browser[r]] = NoPage]
  /\ resp' = [resp EXCEPT ![r] = Append(@, PdfResponse(pdf[r]))]
  /\ Return(r)
  /\ UNCHANGED <<clientVars, alive, exitCode, watchVars, hubVars, fileVars, mdVars, launched>>

\* The browser instances the catch block tears down: the handler's catch
\* only logs and answers 500.
CatchCloses(r) == {}

\* A handler without the catch block: the rejection ends it unanswered.
AwaitRejectedUncaught(r) ==
  /\ alive
  /\ pc[r] \in {"launch", "newPage", "setViewport", "setContent", "pdf", "close"}
  /\ Return(r)
  /\ UNCHANGED <<clientVars, alive, exitCode, watchVars, hubVars, fileVars, mdVars, resp, launched, browsers, page>>

\* The awaited promise rejected: control goes to the catch block, which
\* answers 500.  A rejected browser.close() may or may not have ended the
\* browser process.
AwaitRejected(r) ==
  /\ alive
  /\ pc[r] \in {"launch", "newPage", "setViewport", "setContent", "pdf", "close"}
  /\ resp' = [resp EXCEPT ![r] = Append(@, PdfError)]
  /\ \E ended \in (IF pc[r] = "close" THEN BOOLEAN ELSE {FALSE}) :
       LET gone == {b \in Browsers :
                      b \in CatchCloses(r) \/ (ended /\ b = browser[r])}
       IN /\ browsers' = [b \in Browsers |->
                            IF b \in gone THEN "closed" ELSE browsers[b]]
          /\ page' = [b \in Browsers |-> IF b \in gone THEN NoPage ELSE page[b]]
  /\ Return(r)
  /\ UNCHANGED <<clientVars, alive, exitCode, watchVars, hubVars, fileVars, mdVars, launched>>

(* --------------------- the page: loadMarkdown ------------------------- *)
Rejected == [rejected |-> TRUE]
Undefined == [undefined |-> TRUE]
ErrorMessage == [p |-> "Error loading resume. Please refresh the page.", color |-> "red"]

\* response.json(): the parsed body of a settled fetch.
Json(res) == res.body
\* data.html: the property, or undefined when the object has none.
HtmlOf(data) == IF "html" \in DOMAIN data THEN data.html ELSE Undefined
\* element.innerHTML = value: a value that is no string is converted to
\* one, so undefined is shown as the text "undefined".
InnerHTML(value) == IF value = Undefined THEN [text |-> "undefined"] ELSE value

\* loadMarkdown() is called (by the DOMContentLoaded listener, or by
\* onmessage for an "update") and runs up to await fetch('/api/markdown').
loadMarkdown(l) ==
  /\ loadPc[l] = "idle"
  /\ \A k \in Loads : k < l => loadPc[k] # "idle"
  /\ loadPc' = [loadPc EXCEPT ![l] = "fetch"]
  /\ UNCHANGED <<reloadVars, buttonVars, alive, exitCode, watchVars, hubVars, fileVars, mdVars, pdfVars,
                 response, content, opacity, timers>>

\* The server's /api/markdown handler answers the request and the fetch
\* resolves with that answer, whatever its status; response.json() is
\* called.
FetchResolved(l) ==
  /\ alive
  /\ loadPc[l] = "fetch"
  /\ mdReqs' = mdReqs + 1
  /\ mdResp' = mdResp \o MarkdownResponses
  /\ response' = [response EXCEPT ![l] = MarkdownResponses[1]]
  /\ loadPc' = [loadPc EXCEPT ![l] = "json"]
  /\ UNCHANGED <<reloadVars, buttonVars, alive, exitCode, watchVars, hubVars, fileVars, pdfVars, content, opacity, timers>>

\* The fetch rejects (no answer reaches the page): the catch block shows
\* the error paragraph.
FetchRejected(l) ==
  /\ loadPc[l] = "fetch"
  /\ response' = [response EXCEPT ![l] = Rejected]
  /\ content' = ErrorMessage
  /\ loadPc' = [loadPc EXCEPT ![l] = "done"]
  /\ UNCHANGED <<reloadVars, buttonVars, alive, exitCode, watchVars, hubVars, fileVars, mdVars, pdfVars, opacity, timers>>

\* await response.json() resolved: the element is dimmed and the 100 ms
\* timer is set.
JsonResolved(l) ==
  /\ loadPc[l] = "json"
  /\ opacity' = "0.5"
  /\ timers' = Append(timers, l)
  /\ loadPc' = [loadPc EXCEPT ![l] = "timer"]
  /\ UNCHANGED <<reloadVars, buttonVars, alive, exitCode, watchVars, hubVars, fileVars, mdVars, pdfVars,
                 response, content>>

\* The timer's callback: innerHTML = data.html, opacity back to 1.  Timers
\* set with the same delay run in the order they were set.
TimerFires(l) ==
  /\ loadPc[l] = "timer"
  /\ timers # <<>>
  /\ Head(timers) = l
  /\ timers' = Tail(timers)
  /\ content' = InnerHTML(HtmlOf(Json(response[l])))
  /\ opacity' = "1"
  /\ loadPc' = [loadPc EXCEPT ![l] = "done"]
  /\ UNCHANGED <<reloadVars, buttonVars, alive, exitCode, watchVars, hubVars, fileVars, mdVars, pdfVars, response>>

(* ------------------- the page: DOMContentLoaded ----------------------- *)
\* The DOMContentLoaded listener: loadMarkdown() runs up to its fetch,
\* setupLiveReload() creates the EventSource, and exportToPDF is wired to
\* the button's click event.
DOMContentLoaded ==
  /\ ~loaded
  /\ loaded' = TRUE
  /\ loadPc' = [loadPc EXCEPT ![1] = "fetch"]
  /\ UNCHANGED <<alive, exitCode, watchVars, hubVars, fileVars, mdVars, pdfVars,
                 response, content, opacity, timers, received, buttonVars>>

(* -------------------- the page: setupLiveReload ----------------------- *)
\* The page's EventSource connects to /events: when it is created by
\* setupLiveReload, and again by itself after its connection has closed.
\* It holds one connection at a time.
EventSourceConnects(c) ==
  /\ loaded
  /\ \A d \in Conns : conn[d] # "open"
  /\ Subscribe(c)

\* An onmessage that reloads the content on every message, "connected"
\* included.
OnMessageAlwaysLoads(c) ==
  /\ conn[c] = "open"
  /\ received[c] < Len(sent[c])
  /\ received' = [received EXCEPT ![c] = @ + 1]
  /\ \E l \in Loads :
       /\ loadPc[l] = "idle"
       /\ \A k \in Loads : k < l => loadPc[k] # "idle"
       /\ loadPc' = [loadPc EXCEPT ![l] = "fetch"]
  /\ UNCHANGED <<alive, exitCode, watchVars, hubVars, fileVars, mdVars, pdfVars,
                 response, content, opacity, timers, loaded, buttonVars>>

\* eventSource.onmessage for the next message of the connection:
\* "connected" is logged, "update" calls loadMarkdown(), which runs up to
\* its fetch.
OnMessage(c) ==
  /\ conn[c] = "open"
  /\ received[c] < Len(sent[c])
  /\ received' = [received EXCEPT ![c] = @ + 1]
  /\ IF sent[c][received[c] + 1] = UpdateMsg
     THEN \E l \in Loads :
            /\ loadPc[l] = "idle"
            /\ \A k \in Loads : k < l => loadPc[k] # "idle"
            /\ loadPc' = [loadPc EXCEPT ![l] = "fetch"]
     ELSE loadPc' = loadPc
  /\ UNCHANGED <<alive, exitCode, watchVars, hubVars, fileVars, mdVars, pdfVars,
                 response, content, opacity, timers, loaded, buttonVars>>

(* --------------------- the page: exportToPDF -------------------------- *)
\* A catch block that only alerts and leaves the button as it is.
CatchExportNoReset(r) ==
  /\ alerts' = alerts + 1
  /\ exportPc' = [exportPc EXCEPT ![r] = "done"]
  /\ UNCHANGED <<label, disabled, originalText, clicks, issued, opened>>

\* The catch block of exportToPDF: the button is reset, then alert().
CatchExport(r) ==
  /\ label' = originalText[r]
  /\ disabled' = FALSE
  /\ alerts' = alerts + 1
  /\ exportPc' = [exportPc EXCEPT ![r] = "done"]
  /\ UNCHANGED <<originalText, clicks, issued, opened>>

\* A click on the export button: a disabled button dispatches none.  The
\* r-th click runs exportToPDF up to await fetch('/api/generate-pdf').
ClickExport(r) ==
  /\ loaded
  /\ ~disabled
  /\ r = clicks + 1
  /\ clicks' = clicks + 1
  /\ issued' = issued + 1
  /\ originalText' = [originalText EXCEPT ![r] = label]
  /\ label' = GeneratingLabel
  /\ disabled' = TRUE
  /\ exportPc' = [exportPc EXCEPT ![r] = "fetch"]
  /\ UNCHANGED <<alive, exitCode, watchVars, hubVars, fileVars, mdVars, pdfVars,
                 loadPc, response, content, opacity, timers, reloadVars, alerts, opened>>

\* The page's r-th request reaches the server's /api/generate-pdf handler.
ExportRequested(r) ==
  /\ r <= issued
  /\ ExportPdf(r)

\* An exportToPDF that answers a response that is not ok by sending the
\* request once more before it gives up.
ExportFetchResolvedRetrying(r) ==
  /\ exportPc[r] = "fetch"
  /\ pc[r] = "done"
  /\ resp[r] # <<>>
  /\ IF resp[r][1].status = 200
     THEN /\ exportPc' = [exportPc EXCEPT ![r] = "blob"]
          /\ UNCHANGED <<disabled, label, originalText, clicks, issued, alerts, opened>>
     ELSE /\ label' = originalText[r]
          /\ disabled' = FALSE
          /\ alerts' = alerts + 1
          /\ issued' = issued + 1
          /\ exportPc' = [exportPc EXCEPT ![r] = "done"]
          /\ UNCHANGED <<originalText, clicks, opened>>
  /\ UNCHANGED <<alive, exitCode, watchVars, hubVars, fileVars, mdVars, pdfVars,
                 loadPc, response, content, opacity, timers, reloadVars>>

\* await fetch(...) resolved with the server's answer: a response that is
\* not ok is thrown into the catch block, otherwise response.blob() is
\* called.
ExportFetchResolved(r) ==
  /\ exportPc[r] = "fetch"
  /\ pc[r] = "done"
  /\ resp[r] # <<>>
  /\ IF resp[r][1].status = 200
     THEN /\ exportPc' = [exportPc EXCEPT ![r] = "blob"]
          /\ UNCHANGED <<disabled, label, originalText, clicks, issued, alerts, opened>>
     ELSE CatchExport(r)
  /\ UNCHANGED <<alive, exitCode, watchVars, hubVars, fileVars, mdVars, pdfVars,
                 loadPc, response, content, opacity, timers, reloadVars>>

\* await fetch(...) rejected (a network error): the catch block runs.
ExportFetchRejected(r) ==
  /\ exportPc[r] = "fetch"
  /\ CatchExport(r)
  /\ UNCHANGED <<alive, exitCode, watchVars, hubVars, fileVars, mdVars, pdfVars,
                 loadPc, response, content, opacity, timers, reloadVars>>

\* await response.blob() resolved: the PDF is opened in a new tab and the
\* button is reset.
BlobResolved(r) ==
  /\ exportPc[r] = "blob"
  /\ opened' = opened + 1
  /\ label' = originalText[r]
  /\ disabled' = FALSE
  /\ exportPc' = [exportPc EXCEPT ![r] = "done"]
  /\ UNCHANGED <<alive, exitCode, watchVars, hubVars, fileVars, mdVars, pdfVars,
                 loadPc, response, content, opacity, timers, reloadVars,
                 originalText, clicks, issued, alerts>>

\* await response.blob() rejected (the body could not be read).
BlobRejected(r) ==
  /\ exportPc[r] = "blob"
  /\ CatchExport(r)
  /\ UNCHANGED <<alive, exitCode, watchVars, hubVars, fileVars, mdVars, pdfVars,
                 loadPc, response, content, opacity, timers, reloadVars>>

(* --------------------------- specifications --------------------------- *)
fileActions ==
  \/ Edit
  \/ \E f \in Files : Remove(f)
  \/ \E f \in Files : Restore(f)

\* The Notification Hub: subscribers, the watcher and its broadcasts.
NextHub ==
  \/ WatcherReady
  \/ Edit
  \/ \E c \in Conns : Subscribe(c)
  \/ \E c \in Conns : SubscribeWriteFails(c)
  \/ \E c \in Conns : Close(c)
  \/ \E c \in Conns : Break(c)
  \/ WatcherChange

SpecHub == Init /\ [][NextHub]_vars

\* The requests whose handlers run to completion in one task, with the
\* synchronous part of ExportPdf (the browser automation not answering).
NextRender ==
  \/ fileActions
  \/ GetRendering
  \/ \E c \in Conns : Subscribe(c)
  \/ \E r \in Reqs : ExportPdf(r)

SpecRender == Init /\ [][NextRender]_vars

\* The PDF export with its await points, and the files it reads.
NextExport ==
  \/ fileActions
  \/ \E r \in Reqs : ExportPdf(r)
  \/ \E r \in Reqs : LaunchResolved(r)
  \/ \E r \in Reqs : NewPageResolved(r)
  \/ \E r \in Reqs : SetViewportResolved(r)
  \/ \E r \in Reqs : SetContentResolved(r)
  \/ \E r \in Reqs : PdfResolved(r)
  \/ \E r \in Reqs : CloseResolved(r)
  \/ \E r \in Reqs : AwaitRejected(r)

SpecExport == Init /\ [][NextExport]_vars

\* The event loop with the watcher's life cycle and the interrupt signal:
\* the handlers that finish in one task, the browser automation not answering.
NextLoop ==
  \/ WatcherReady
  \/ Edit
  \/ WatcherChange
  \/ WatcherError
  \/ Sigint
  \/ \E c \in Conns : Subscribe(c)
  \/ GetRendering
  \/ \E r \in Reqs : ExportPdf(r)

SpecLoop == Init /\ [][NextLoop]_vars

\* The page's content loads against the server's /api/markdown handler,
\* while the Document is edited, removed and restored.
NextClient ==
  \/ Edit
  \/ Remove(RESUME_PATH)
  \/ Restore(RESUME_PATH)
  \/ \E l \in Loads : loadMarkdown(l)
  \/ \E l \in Loads : FetchResolved(l)
  \/ \E l \in Loads : FetchRejected(l)
  \/ \E l \in Loads : JsonResolved(l)
  \/ \E l \in Loads : TimerFires(l)

SpecClient == Init /\ [][NextClient]_vars

\* The page's export button against the server's /api/generate-pdf handler.
NextButton ==
  \/ DOMContentLoaded
  \/ Remove(RESUME_PATH)
  \/ Restore(RESUME_PATH)
  \/ \E r \in Reqs : ClickExport(r)
  \/ \E r \in Reqs : ExportRequested(r)
  \/ \E r \in Reqs : LaunchResolved(r)
  \/ \E r \in Reqs : NewPageResolved(r)
  \/ \E r \in Reqs : SetViewportResolved(r)
  \/ \E r \in Reqs : SetContentResolved(r)
  \/ \E r \in Reqs : PdfResolved(r)
  \/ \E r \in Reqs : CloseResolved(r)
  \/ \E r \in Reqs : AwaitRejected(r)
  \/ \E r \in Reqs : ExportFetchResolved(r)
  \/ \E r \in Reqs : ExportFetchRejected(r)
  \/ \E r \in Reqs : BlobResolved(r)
  \/ \E r \in Reqs : BlobRejected(r)

SpecButton == Init /\ [][NextButton]_vars

\* A save made once the watcher watches the file.
WatchedEdit ==
  /\ watcher = "ready"
  /\ Edit

\* Live reload: the watcher and the hub on the server, the page's
\* EventSource and its content loads.
NextReload ==
  \/ WatcherReady
  \/ WatchedEdit
  \/ WatcherChange
  \/ DOMContentLoaded
  \/ \E c \in Conns : EventSourceConnects(c)
  \/ \E c \in Conns : Close(c)
  \/ \E c \in Conns : OnMessage(c)
  \/ \E l \in Loads : FetchResolved(l)
  \/ \E l \in Loads : JsonResolved(l)
  \/ \E l \in Loads : TimerFires(l)

SpecReload == Init /\ [][NextReload]_vars

\* The event stream alone: what the page does with the messages it gets.
NextStream ==
  \/ WatcherReady
  \/ WatchedEdit
  \/ WatcherChange
  \/ DOMContentLoaded
  \/ \E c \in Conns : EventSourceConnects(c)
  \/ \E c \in Conns : Close(c)
  \/ \E c \in Conns : OnMessage(c)

SpecStream == Init /\ [][NextStream]_vars

Next == NextHub \/ NextRender \/ NextExport \/ NextLoop \/ NextClient \/ NextButton \/ NextReload \/ NextStream

Spec == Init /\ [][Next]_vars

(* ----------------------------- properties ----------------------------- *)
Registered == Range(clients)
IsBroadcast == pending' = pending - 1
GotUpdate(c) == sent'[c] = Append(sent[c], UpdateMsg)

\* C1: while the process runs, the registry holds exactly the connections
\* that are open, each once; a closed connection is not in it, so no
\* broadcast that runs after the close finds it there.
C1_RegistryIsOpenChannels ==
  alive => /\ Registered = {c \in Conns : conn[c] = "open"}
           /\ Len(clients) = Cardinality(Registered)

C1_Witness ==
  /\ alive
  /\ \E c, d \in Conns :
       /\ c < d
       /\ conn[c] = "closed" /\ sent[c] = <<ConnectedMsg>>
       /\ conn[d] = "open" /\ Len(sent[d]) = 3
       /\ clients = <<d>>

\* C2: every change event handled by the watcher callback writes exactly one
\* "update" to every subscriber registered at that moment, none skipped, and
\* no "update" is written outside such a callback.
C2_EveryChangeWritesAll ==
  [][/\ IsBroadcast => \A c \in Registered : GotUpdate(c)
     /\ ~IsBroadcast => \A c \in Conns : ~GotUpdate(c)]_vars

\* C3: in a broadcast, a channel whose write fails does not keep the other
\* registered subscribers from receiving the "update", and the process
\* keeps running.
C3_WriteFailureIsolated ==
  [][IsBroadcast =>
       /\ alive'
       /\ \A c \in Registered \ failing : GotUpdate(c)]_vars

\* C4: what is written to a subscriber is one "connected" followed only by
\* "update" messages; a connection that was never registered is written
\* nothing at all.
C4_ConnectedThenUpdates ==
  \A c \in Conns :
    IF conn[c] \in {"open", "closed"}
    THEN /\ Len(sent[c]) >= 1
         /\ sent[c][1] = ConnectedMsg
         /\ \A i \in 2..Len(sent[c]) : sent[c][i] = UpdateMsg
    ELSE /\ sent[c] = <<>>
         /\ c \notin Registered

C4_Witness ==
  \E c, d \in Conns :
    /\ sent[c] = <<ConnectedMsg, UpdateMsg, UpdateMsg>>
    /\ conn[d] = "failed"

\* C5: a closed subscriber stays closed and out of the registry, is written
\* nothing more, and every later broadcast completes (the process keeps
\* running) and reaches all the subscribers that remain.
C5_ClosedIsTerminal ==
  [][\A c \in Conns : conn[c] = "closed" =>
       /\ conn'[c] = "closed"
       /\ c \notin Range(clients')
       /\ sent'[c] = sent[c]
       /\ IsBroadcast => (alive' /\ \A d \in Registered : GotUpdate(d))]_vars

\* C6: subscribers that are registered before a change event and still open
\* after it (their channels working, the process running) are written the
\* same messages by every step: one "update" each, or nothing each.
C6_SameSequenceForAll ==
  [][alive' =>
       \A c, d \in (Registered \cap Range(clients')) \ failing :
         /\ sent'[c] = sent[c] \/ GotUpdate(c)
         /\ GotUpdate(c) <=> GotUpdate(d)]_vars

InlineDisposition == "inline; filename=\"John_Karpathy_Resume.pdf\""
Finishes(r) == pc[r] # "done" /\ pc'[r] = "done"

\* C7: a finished ExportPdf request has launched at most one browser
\* instance and no instance it launched is still open.
C7_BrowserTornDown ==
  \A r \in Reqs : pc[r] = "done" =>
    /\ Cardinality(launched[r]) <= 1
    /\ \A b \in launched[r] : browsers[b] = "closed"

\* C8: every GetRendering request is answered exactly once, with {html} of
\* the current Document when it is readable and with status 500 and {error}
\* when it is not; the handler changes nothing else, and the process is
\* running afterwards.
C8_GetRenderingAnswers ==
  [][/\ Len(mdResp) = mdReqs
     /\ Len(mdResp') = mdReqs'
     /\ mdReqs' = mdReqs => mdResp' = mdResp
     /\ mdReqs' = mdReqs + 1 =>
          /\ SubSeq(mdResp', 1, mdReqs) = mdResp
          /\ LET a == mdResp'[mdReqs'] IN
               IF RESUME_PATH \in readable
               THEN a.status = 200 /\ a.body = [html |-> marked(doc)]
               ELSE a.status = 500 /\ DOMAIN a.body = {"error"}
          /\ alive'
          /\ UNCHANGED <<hubVars, fileVars, pdfVars>>]_vars

C8_Witness ==
  /\ alive
  /\ mdReqs = 2
  /\ mdResp[1] = ReadError
  /\ mdResp[2].status = 200 /\ mdResp[2].body = [html |-> marked(1)]
  /\ conn[1] = "open"
  /\ pc[1] = "launch"

\* C9: an ExportPdf request that completes has sent exactly one response:
\* the PDF as application/pdf with an inline disposition after all the
\* browser calls resolved, or status 500 with {error} after a failed read
\* or a rejected browser call; nothing is sent before completion or after
\* it, and no step of an export stops the process.
C9_ExportAnswersOnce ==
  [][\A r \in Reqs :
       /\ pc[r] # "done" => resp[r] = <<>>
       /\ pc[r] = "done" => resp'[r] = resp[r]
       /\ pc'[r] # "done" => resp'[r] = <<>>
       /\ alive' = alive
       /\ Finishes(r) =>
            /\ Len(resp'[r]) = 1
            /\ LET a == resp'[r][1] IN
                 \/ /\ a.status = 500 /\ DOMAIN a.body = {"error"}
                 \/ /\ pc[r] = "close"
                    /\ a.status = 200
                    /\ a.type = "application/pdf"
                    /\ a.disposition = InlineDisposition
                    /\ a.body = pdf[r]
            /\ pc[r] = "idle" => resp'[r][1].status = 500]_vars

C9_Witness ==
  /\ pc[1] = "done" /\ resp[1] = <<PdfError>> /\ launched[1] # {}
  /\ pc[2] = "done" /\ resp[2][1].status = 200

\* C10: export requests in flight together never share a browser instance
\* or a page; the page of a request holds only the HTML that request
\* assembled, its PDF and its response are made from that HTML, and a step
\* of one request leaves the other requests' browsers and pages as they are.
C10_ExportsIndependent ==
  [][\A r \in Reqs :
       /\ \A q \in Reqs \ {r} : browser[r] # 0 => browser[r] # browser[q]
       /\ browser[r] # 0 =>
            /\ page[browser[r]].content \in {NoHtml, fullHtml[r]}
            /\ pdf[r] # NoPdf => pdf[r].of = fullHtml[r]
            /\ Finishes(r) /\ resp'[r][1].status = 200 =>
                 resp'[r][1].body.of = fullHtml[r]
            /\ \A q \in Reqs \ {r} : pc'[q] # pc[q] =>
                 /\ browsers'[browser[r]] = browsers[browser[r]]
                 /\ page'[browser[r]] = page[browser[r]]]_vars

C10_Witness ==
  /\ pc[1] = "pdf" /\ pc[2] = "pdf"
  /\ fullHtml[1] # fullHtml[2]
  /\ page[browser[1]].content = fullHtml[1]
  /\ page[browser[2]].content = fullHtml[2]

AwaitPoints == {"launch", "newPage", "setViewport", "setContent", "pdf", "close"}
Suspended(r) == pc[r] \in AwaitPoints

\* C11: while an export is suspended at an await point, a GetRendering
\* request, the next Subscribe request, a pending change broadcast and the
\* next ExportPdf request can each be processed, each in one task; such a
\* task leaves the suspended export where it is, and the suspended export
\* has sent nothing.
C11_HungExportBlocksNothing ==
  [][\A r \in Reqs : (alive /\ Suspended(r)) =>
       /\ resp[r] = <<>>
       /\ mdReqs < MaxRenders => ENABLED GetRendering
       /\ pending > 0 => ENABLED WatcherChange
       /\ \A c \in Conns :
            (conn[c] = "none" /\ \A d \in Conns : d < c => conn[d] # "none")
              => ENABLED Subscribe(c)
       /\ \A q \in Reqs :
            (pc[q] = "idle" /\ \A o \in Reqs : o < q => pc[o] # "idle")
              => ENABLED ExportPdf(q)
       /\ (mdReqs' # mdReqs \/ sent' # sent \/ clients' # clients
            \/ \E q \in Reqs \ {r} : pc'[q] # pc[q])
              => (pc'[r] = pc[r] /\ fullHtml'[r] = fullHtml[r])
       /\ mdReqs' = mdReqs + 1 => Len(mdResp') = Len(mdResp) + 1]_vars

C11_Witness ==
  /\ alive
  /\ pc[1] = "launch" /\ fullHtml[1].content.md = 0 /\ resp[1] = <<>>
  /\ pc[2] = "launch" /\ fullHtml[2].content.md = MaxEdits
  /\ mdReqs = 2 /\ mdResp[2].body.html.md = MaxEdits
  /\ \E c \in Conns : sent[c] = <<ConnectedMsg, UpdateMsg, UpdateMsg>>

Origins(html) == IF html = NoHtml THEN {} ELSE {l.origin : l \in html.links}

\* C12: the page of an export is never navigated to a URL; its content is
\* the HTML the request assembled, injected with setContent, and refers to
\* nothing on the server's own origin; the step that loads the content is
\* enabled whenever the export waits for it and runs no handler of this
\* server.
C12_ContentInjected ==
  [][\A r \in Reqs :
       /\ Origins(fullHtml[r]) \cap {ServerOrigin} = {}
       /\ browser[r] # 0 =>
            /\ page[browser[r]].url = "about:blank"
            /\ page[browser[r]].content \in {NoHtml, fullHtml[r]}
       /\ (alive /\ pc[r] = "setContent") => ENABLED SetContentResolved(r)
       /\ (pc[r] = "setContent" /\ pc'[r] = "pdf") =>
            /\ page'[browser[r]].content = fullHtml[r]
            /\ UNCHANGED <<mdVars, hubVars>>]_vars

C12_Witness ==
  \E r \in Reqs :
    /\ pc[r] = "pdf"
    /\ page[browser[r]].content = fullHtml[r]
    /\ page[browser[r]].url = "about:blank"
    /\ fullHtml[r].content.md = 1

Assembled == {fullHtml[r] : r \in Reqs} \ {NoHtml}
StylesheetLinks(html) == {l \in html.links : l.rel = "stylesheet"}

\* C13 (as claimed): the HTML handed to the browser inlines both
\* stylesheets and references no stylesheet that is fetched at render time.
C13_NoStylesheetFetched ==
  \A html \in Assembled :
    /\ html.style = <<GithubCssPath, CustomCssPath>>
    /\ StylesheetLinks(html) = {}

\* C13 (amended): the HTML handed to the browser inlines both the base and
\* the project stylesheet and fetches no stylesheet from the server; the
\* one stylesheet it references by URL is the web font's, on the fonts
\* origin.
C13_StylesheetsInlined ==
  \A html \in Assembled :
    /\ html.style = <<GithubCssPath, CustomCssPath>>
    /\ StylesheetLinks(html) = {[rel |-> "stylesheet", origin |-> FontsOrigin]}

C13_Witness ==
  \E r \in Reqs :
    /\ pc[r] = "pdf"
    /\ page[browser[r]].content = fullHtml[r]
    /\ fullHtml[r].style = <<GithubCssPath, CustomCssPath>>

\* C14: GetRendering and ExportPdf read the Document on every request: the
\* rendering a request answers with (or prints) is that of the Document's
\* version at the step in which the request's read runs, whatever was
\* rendered for earlier requests, and answers already sent stay as they are.
C14_ReadsCurrentDocument ==
  [][/\ (mdReqs' = mdReqs + 1 /\ RESUME_PATH \in readable) =>
          /\ Len(mdResp') = Len(mdResp) + 1
          /\ mdResp'[Len(mdResp')].status = 200
          /\ mdResp'[Len(mdResp')].body.html.md = doc
     /\ \A i \in 1..Len(mdResp) : mdResp'[i] = mdResp[i]
     /\ \A r \in Reqs : (pc[r] = "idle" /\ pc'[r] = "launch") =>
          fullHtml'[r].content.md = doc]_vars

C14_Witness ==
  /\ Len(mdResp) = 2
  /\ mdResp[1].status = 200 /\ mdResp[1].body.html.md = 0
  /\ mdResp[2].status = 200 /\ mdResp[2].body.html.md = 1
  /\ \E r \in Reqs : pc[r] = "launch" /\ fullHtml[r].content.md = 2

UpdatesIn(seq) == Cardinality({i \in 1..Len(seq) : seq[i] = UpdateMsg})

\* C15: the watcher's first observation of the existing Document is no
\* change: the change events queued and the "update" messages written to
\* any channel never outnumber the modifications of the file, so before the
\* first modification nothing is queued and no "update" is broadcast.
C15_InitialStateIgnored ==
  /\ \A c \in Conns : pending + UpdatesIn(sent[c]) <= doc
  /\ doc = 0 => (pending = 0 /\ \A c \in Conns : UpdatesIn(sent[c]) = 0)

C15_Witness ==
  /\ watcher = "ready"
  /\ doc = 0
  /\ pending = 0
  /\ \E c \in Conns : conn[c] = "open" /\ sent[c] = <<ConnectedMsg>>

FirstFree(c) == conn[c] = "none" /\ \A d \in Conns : d < c => conn[d] # "none"
FirstIdle(q) == pc[q] = "idle" /\ \A o \in Reqs : o < q => pc[o] # "idle"

\* C16: the watcher's error handler only logs: the step in which it runs
\* leaves the registry, every channel's messages, the queued changes and
\* the process as they were, and once it has run (as before) GetRendering,
\* Subscribe and ExportPdf are accepted whenever the process is running.
C16_WatcherErrorAbsorbed ==
  [][/\ watchErrors' # watchErrors =>
          /\ UNCHANGED <<alive, exitCode, watcher, hubVars, mdVars, pdfVars>>
          /\ alive'
     /\ (watchErrors > 0 /\ alive) =>
          /\ mdReqs < MaxRenders => ENABLED GetRendering
          /\ \A c \in Conns : FirstFree(c) => ENABLED Subscribe(c)
          /\ \A q \in Reqs : FirstIdle(q) => ENABLED ExportPdf(q)]_vars

C16_Witness ==
  /\ watchErrors = 1
  /\ alive
  /\ Len(mdResp) > 0
  /\ Len(clients) > 0
  /\ \E q \in Reqs : pc[q] # "idle"

HalfInchAllRound == [top |-> "0.5in", right |-> "0.5in", bottom |-> "0.5in", left |-> "0.5in"]
Configured(bytes) ==
  /\ bytes.options.format = "Letter"
  /\ bytes.options.printBackground = TRUE
  /\ bytes.options.margin = HalfInchAllRound

C19_InterruptStopsAndExits ==
  [][/\ (watcher # "closed" /\ watcher' = "closed") => (alive /\ ~alive' /\ exitCode' = 0)
     /\ watcher' = "closed" => (~alive' /\ exitCode' = 0)
     /\ exitCode = 0 =>
          /\ ~alive
          /\ UNCHANGED <<alive, exitCode, watcher, hubVars, mdVars, pdfVars>>]_vars

C19_Witness ==
  /\ exitCode = 0
  /\ ~alive
  /\ watcher = "closed"
  /\ doc = MaxEdits
  /\ \E c \in Conns : conn[c] = "open" /\ UpdatesIn(sent[c]) < doc

FetchFailed(l) == response[l] = Rejected \/ (response[l] # NoResponse /\ response[l] # Rejected /\ response[l].status = 500)

\* C20: a load whose fetch failed (it rejected, or it was answered with the
\* 500 error envelope) writes nothing but the inline error message to the
\* content element, and the element shows that message when the load ends.
C20_FailedLoadShowsError ==
  [][\A l \in Loads :
       (FetchFailed(l)' /\ loadPc'[l] # loadPc[l]) =>
         /\ content' \in {content, ErrorMessage}
         /\ loadPc'[l] = "done" => content' = ErrorMessage]_vars

Starts(r) == pc[r] = "idle" /\ pc'[r] # "idle"

\* C27: an ExportPdf request that finds the Document or one of the two
\* stylesheets unreadable is answered with the 500 error in the task that
\* read them, with no browser launched by it then or later; a browser is
\* launched only by a request that has read all three files.
C27_ReadFailureLaunchesNothing ==
  [][\A r \in Reqs :
       /\ (Starts(r) /\ ~(Files \subseteq readable)) =>
            /\ pc'[r] = "done"
            /\ resp'[r] = <<PdfError>>
            /\ launched'[r] = {}
            /\ browsers' = browsers
       /\ (pc[r] = "done" /\ launched[r] = {}) => launched'[r] = {}
       /\ launched'[r] # launched[r] => (pc[r] = "launch" /\ fullHtml[r] # NoHtml)]_vars

C27_Witness ==
  \E r \in Reqs :
    /\ pc[r] = "done"
    /\ resp[r] = <<PdfError>>
    /\ launched[r] = {}
    /\ CustomCssPath \notin readable
    /\ RESUME_PATH \in readable

SystemStep ==
  \/ mdReqs' # mdReqs
  \/ pc' # pc
  \/ pending' < pending
  \/ watcher' # watcher
  \/ watchErrors' # watchErrors
  \/ clients' # clients

\* C25: the server only reads the Document, and the registry changes only
\* in a step in which a connection is accepted or closes, the accepted one
\* being appended and the closed one removed: no step of GetRendering,
\* ExportPdf, the broadcast or a watcher callback changes the Document or
\* which files are readable, and GetRendering, ExportPdf and the broadcast
\* leave the registry as it is.
C25_ReadsDocumentOwnsRegistry ==
  [][/\ SystemStep => UNCHANGED fileVars
     /\ (mdReqs' # mdReqs \/ pc' # pc \/ pending' < pending) =>
          UNCHANGED <<clients, conn>>
     /\ clients' # clients =>
          \E c \in Conns :
            /\ conn'[c] # conn[c]
            /\ \A d \in Conns \ {c} : conn'[d] = conn[d]
            /\ clients' = IF conn'[c] = "open" THEN Append(clients, c)
                          ELSE Without(clients, c)]_vars

C25_Witness ==
  /\ doc = MaxEdits
  /\ mdReqs > 0
  /\ watchErrors > 0
  /\ \E r \in Reqs : pc[r] # "idle"
  /\ \E c, d \in Conns : UpdatesIn(sent[c]) > 0 /\ clients = <<c, d>>

InFlight == {r \in Reqs : exportPc[r] \in {"fetch", "blob"}}
Completes(r) == r \in InFlight /\ exportPc'[r] = "done"

\* C21: the export button is disabled, showing the waiting label, exactly
\* while a call of exportToPDF waits for its request, so at most one is in
\* flight; every way the call ends re-enables the button with the label it
\* had: a PDF received in full is opened without an alert, and a rejected
\* fetch, an answer that is not ok and an unreadable body each show one
\* alert and open nothing; an enabled button accepts the next click.
C21_ButtonGuardsExport ==
  [][/\ disabled <=> InFlight # {}
     /\ Cardinality(InFlight) <= 1
     /\ label = (IF disabled THEN GeneratingLabel ELSE ExportLabel)
     /\ alerts + opened = Cardinality({r \in Reqs : exportPc[r] = "done"})
     /\ (loaded /\ ~disabled /\ clicks < MaxExports) => ENABLED ClickExport(clicks + 1)
     /\ \A r \in Reqs :
          /\ (exportPc[r] = "fetch" /\ exportPc'[r] = "blob") => resp[r][1].status = 200
          /\ Completes(r) =>
               /\ ~disabled'
               /\ label' = ExportLabel
               /\ IF opened' # opened
                  THEN /\ exportPc[r] = "blob"
                       /\ opened' = opened + 1
                       /\ alerts' = alerts
                  ELSE alerts' = alerts + 1]_vars

C21_Witness ==
  /\ exportPc[1] = "done" /\ resp[1] = <<PdfError>>
  /\ exportPc[2] = "done" /\ resp[2] # <<>> /\ resp[2][1].status = 200
  /\ alerts = 1
  /\ opened = 1
  /\ ~disabled
  /\ label = ExportLabel

Accepted == {r \in Reqs : pc[r] # "idle"}
Launches == {b \in Browsers : browsers[b] # "none"}

\* C26: nothing in the export path retries: the page has sent exactly as
\* many ExportPdf requests as the button was clicked, the server has
\* accepted no more requests than that, each request has launched at most
\* one browser instance, and a call that has ended in failure has sent and
\* launched nothing more.
C26_NoRetry ==
  [][/\ issued = clicks
     /\ Cardinality(Accepted) <= clicks
     /\ \A r \in Reqs : Cardinality(launched[r]) <= 1
     /\ Cardinality(Launches) <= clicks
     /\ clicks' = clicks => issued' = issued
     /\ \A r \in Reqs : pc[r] = "done" => launched'[r] = launched[r]]_vars

C26_Witness ==
  /\ clicks = 1
  /\ issued = 1
  /\ exportPc[1] = "done"
  /\ alerts = 1
  /\ resp[1] = <<PdfError>>
  /\ Cardinality(launched[1]) = 1
  /\ pc[2] = "idle"
  /\ ~disabled

LoadsAtRest == \A l \in Loads : loadPc[l] \in {"idle", "done"}
Settled(c) ==
  /\ loaded
  /\ watcher = "ready"
  /\ pending = 0
  /\ conn[c] = "open"
  /\ received[c] = Len(sent[c])
  /\ LoadsAtRest

\* C22: after a burst of changes of the Document, each of which reached
\* the page as an "update" on a connection that never dropped, once all
\* messages have been handled and every fetch and display timer has
\* completed, the content element shows the rendering of the Document's
\* final version.
C22_BurstEndsCurrent ==
  \A c \in Conns :
    (/\ Settled(c)
     /\ \A d \in Conns : conn[d] # "closed"
     /\ doc >= 2
     /\ UpdatesIn(sent[c]) = doc) => content = marked(doc)

Dropped == \E d \in Conns : conn[d] = "closed"
Fetched == {response[l].body.html : l \in {k \in Loads : loadPc[k] = "done"}}
ShowsNewestFetched == content \in Fetched /\ \A h \in Fetched : h.md <= content.md

\* C23: a save made while the page's event stream was down reaches the
\* page once the stream is back: when the page is connected again after a
\* drop, the watcher has reported every change, every message has been
\* handled, no load is under way and the page shows the newest rendering it
\* has fetched, that rendering is the one of the Document as it is now
\* (nothing is left that would bring a newer one).
C23_ReconnectCatchesUp ==
  \A c \in Conns :
    (Settled(c) /\ Dropped /\ ShowsNewestFetched) => content = marked(doc)

Started == {l \in Loads : loadPc[l] # "idle"}
Handled(c) == SubSeq(sent[c], 1, received[c])
RECURSIVE UpdatesHandled(_)
UpdatesHandled(n) == IF n = 0 THEN 0 ELSE UpdatesIn(Handled(n)) + UpdatesHandled(n - 1)

\* C24: the page calls loadMarkdown once when it has loaded and once for
\* every "update" message it handles, and at no other time: handling an
\* "update" starts exactly one fetch, handling a "connected" starts none,
\* and the fetches started are as many as the page load plus the "update"
\* messages handled on all its connections.
C24_OneFetchPerUpdate ==
  [][/\ Cardinality(Started) = (IF loaded THEN 1 ELSE 0) + UpdatesHandled(MaxConns)
     /\ \A c \in Conns : received'[c] # received[c] =>
          /\ received'[c] = received[c] + 1
          /\ Cardinality(Started') - Cardinality(Started) =
               (IF sent[c][received[c] + 1] = UpdateMsg THEN 1 ELSE 0)
     /\ Started' # Started =>
          \/ ~loaded /\ loaded' /\ Started' = Started \cup {1}
          \/ \E c \in Conns : /\ received'[c] = received[c] + 1
                                /\ sent[c][received[c] + 1] = UpdateMsg]_vars

C24_Witness ==
  /\ conn[1] = "closed" /\ received[1] = 2 /\ Handled(1) = <<ConnectedMsg, UpdateMsg>>
  /\ conn[2] = "open" /\ received[2] = 2 /\ Handled(2) = <<ConnectedMsg, UpdateMsg>>
  /\ Started = {1, 2, 3}
====
